---------------------------- MODULE Spec2Model ----------------------------
(***************************************************************************)
(* A model of pdf_extractor/core.py (KashyapAnurag/DocTool).               *)
(*                                                                         *)
(* Python strings that the code takes apart (page text, grid cells, file   *)
(* names) are sequences of Unicode code points, so that strip, split,      *)
(* splitlines, lower, endswith and Path.stem are computed character by     *)
(* character.  Column labels and sheet names, which the code only copies,  *)
(* are TLA+ strings.                                                       *)
(*                                                                         *)
(* A DataFrame is a record [columns, rows]: its shape is                   *)
(* (Len(rows), Len(columns)) and every row has Len(columns) cells.         *)
(***************************************************************************)
EXTENDS Integers, Sequences, FiniteSets, TLC

VARIABLES
    tree,         \* what os.walk will yield: a sequence of [root, file, doc]
    idx,          \* number of directory entries the walk has consumed
    failed_pdfs,  \* run_processing_batch's failure list
    outdir,       \* the output directory: workbook file name -> workbook
    calls,        \* per entry of tree, how often process_pdf was invoked on it
    wrote,        \* entries of tree whose pipeline wrote a workbook
    pc,           \* position of the operation under study
    pdf,          \* the PDF document handed to extract_raw_data
    df_raw,       \* the raw grid handed to / returned by the extractors
    tabs          \* the field tables computed so far

vars == <<tree, idx, failed_pdfs, outdir, calls, wrote, pc, pdf, df_raw, tabs>>

----------------------------------------------------------------------------
(* Bounds of the model *)

MaxLines == 3
MaxTokens == 5
MaxFiles == 3
MaxPipeLen == 2
MaxCoordLen == 5
MaxRows == 97
MaxCols == 12

----------------------------------------------------------------------------
(* Python str primitives *)

\* The printable ASCII characters in code point order, from U+0020 to U+007E
\* (U+005C and U+0060 are written by name)
Printable ==
    <<" ", "!", "\"", "#", "$", "%", "&", "'", "(", ")", "*", "+", ",", "-",
      ".", "/", "0", "1", "2", "3", "4", "5", "6", "7", "8", "9", ":", ";",
      "<", "=", ">", "?", "@", "A", "B", "C", "D", "E", "F", "G", "H", "I",
      "J", "K", "L", "M", "N", "O", "P", "Q", "R", "S", "T", "U", "V", "W",
      "X", "Y", "Z", "[", "backslash", "]", "^", "_", "grave", "a", "b", "c", "d", "e",
      "f", "g", "h", "i", "j", "k", "l", "m", "n", "o", "p", "q", "r", "s",
      "t", "u", "v", "w", "x", "y", "z", "{", "|", "}", "~">>

\* ord(ch) for a printable ASCII character
ord(ch) == 31 + (CHOOSE i \in 1..Len(Printable) : Printable[i] = ch)

\* a str literal of the code, written as its characters
str(chars) == [i \in 1..Len(chars) |-> ord(chars[i])]

Digits == str(<<"0", "1", "2", "3", "4", "5", "6", "7", "8", "9">>)
Upper == str(<<"A", "B", "C", "D", "E", "F", "G", "H", "I", "J", "K", "L", "M",
               "N", "O", "P", "Q", "R", "S", "T", "U", "V", "W", "X", "Y", "Z">>)

Space == str(<<" ">>)
Slash == str(<<"/">>)
Comma == ord(",")
Dot == ord(".")
\* "\t", "\n", "\r\n" and "\xa0"
Tab == <<9>>
LineFeed == <<10>>
CrLf == <<13, 10>>
NoBreakSpace == <<160>>

Range(s) == {s[i] : i \in 1..Len(s)}

\* the characters c with c.isspace(): the separators of str.split(), the
\* characters str.strip() removes and the class \s of a str pattern
WhiteSpace ==
    (9..13) \cup (28..32) \cup {133, 160, 5760} \cup (8192..8202)
        \cup {8232, 8233, 8239, 8287, 12288}

IsSpace(ch) == ch \in WhiteSpace

\* the line boundaries of str.splitlines(): \n \v \f \r \x1c \x1d \x1e \x85
\* U+2028 U+2029; "\r\n" is one boundary
LineBreaks == (10..13) \cup (28..30) \cup {133, 8232, 8233}

IsLineBreak(ch) == ch \in LineBreaks

RECURSIVE lstrip(_)
lstrip(s) ==
    IF s = <<>> THEN <<>>
    ELSE IF IsSpace(Head(s)) THEN lstrip(Tail(s)) ELSE s

RECURSIVE rstrip(_)
rstrip(s) ==
    IF s = <<>> THEN <<>>
    ELSE IF IsSpace(s[Len(s)]) THEN rstrip(SubSeq(s, 1, Len(s) - 1)) ELSE s

\* str.strip()
strip(s) == rstrip(lstrip(s))

\* index of the first whitespace (non-whitespace) character at or after p,
\* else Len(s)+1
RECURSIVE NextSpace(_, _)
NextSpace(s, p) ==
    IF p > Len(s) THEN p
    ELSE IF IsSpace(s[p]) THEN p ELSE NextSpace(s, p + 1)

RECURSIVE NextNonSpace(_, _)
NextNonSpace(s, p) ==
    IF p > Len(s) THEN p
    ELSE IF IsSpace(s[p]) THEN NextNonSpace(s, p + 1) ELSE p

\* str.split() with no argument: the maximal runs of non-whitespace
RECURSIVE SplitFrom(_, _)
SplitFrom(s, p) ==
    LET b == NextNonSpace(s, p)
        e == NextSpace(s, b)
    IN  IF b > Len(s) THEN <<>>
        ELSE <<SubSeq(s, b, e - 1)>> \o SplitFrom(s, e)

split(s) == SplitFrom(s, 1)

\* position i of s ends a line boundary: a boundary character, other than
\* the \r of "\r\n"
EndsBreak(s, i) ==
    IsLineBreak(s[i]) /\ ~(s[i] = 13 /\ i < Len(s) /\ s[i + 1] = 10)

\* str.splitlines(): a line starts at the first character and after every
\* line boundary that is not the end of the text; it ends before the next
\* boundary character
splitlines(s) ==
    LET n == Len(s)
        starts == {p \in 1..n : p = 1 \/ EndsBreak(s, p - 1)}
        Start(k) == CHOOSE p \in starts : Cardinality({q \in starts : q < p}) = k - 1
        End(p) == LET stops == {i \in p..n : IsLineBreak(s[i])} \cup {n + 1}
                  IN  CHOOSE i \in stops : \A j \in stops : i <= j
    IN  [k \in 1..Cardinality(starts) |-> SubSeq(s, Start(k), End(Start(k)) - 1)]

\* str.split(sep) for a one-character separator: always at least one part
RECURSIVE SplitOnFrom(_, _, _)
SplitOnFrom(s, sep, p) ==
    LET hits == {i \in p..Len(s) : s[i] = sep}
    IN  IF hits = {} THEN <<SubSeq(s, p, Len(s))>>
        ELSE LET e == CHOOSE i \in hits : \A j \in hits : i <= j
             IN  <<SubSeq(s, p, e - 1)>> \o SplitOnFrom(s, sep, e + 1)

split_on(s, sep) == SplitOnFrom(s, sep, 1)

\* sep.join(parts), halving the list
RECURSIVE join(_, _)
join(sep, parts) ==
    IF parts = <<>> THEN <<>>
    ELSE IF Len(parts) = 1 THEN parts[1]
    ELSE LET h == Len(parts) \div 2
         IN  join(sep, SubSeq(parts, 1, h)) \o sep
                 \o join(sep, SubSeq(parts, h + 1, Len(parts)))

\* the non-empty elements of a sequence, in order
RECURSIVE NonEmptyOnly(_)
NonEmptyOnly(parts) ==
    IF parts = <<>> THEN <<>>
    ELSE IF parts[1] = <<>> THEN NonEmptyOnly(Tail(parts))
    ELSE <<parts[1]>> \o NonEmptyOnly(Tail(parts))

\* max(len(row) for row in rows), for a non-empty list of rows
MaxLen(rows) ==
    CHOOSE m \in {Len(rows[i]) : i \in 1..Len(rows)} :
        \A i \in 1..Len(rows) : Len(rows[i]) <= m

----------------------------------------------------------------------------
(* DataFrames *)

EmptyFrame == [columns |-> <<>>, rows |-> <<>>]

NRows(df) == Len(df.rows)
NCols(df) == Len(df.columns)

\* DataFrame.empty: some axis has length 0
IsEmpty(df) == NRows(df) = 0 \/ NCols(df) = 0

\* df.iloc[row, col] with 0-based positions
Cell(df, row, col) == df.rows[row + 1][col + 1]

\* pd.DataFrame(all_rows, columns=raw_columns).fillna(""): short rows are
\* completed with missing values on the right, which fillna turns into ""
PadRow(row, width) == row \o [i \in 1..(width - Len(row)) |-> <<>>]

----------------------------------------------------------------------------
(* extract_raw_data *)

\* lines 14-25: the token rows of all pages; raised when opening the document
\* or extracting a page's text raises (the rows collected so far are dropped)
RECURSIVE PageRows(_)
PageRows(pages) ==
    IF pages = <<>> THEN <<>>
    ELSE (IF pages[1].text # <<>>
          THEN [i \in 1..Len(splitlines(pages[1].text)) |->
                    split(splitlines(pages[1].text)[i])]
          ELSE <<>>) \o PageRows(Tail(pages))

collect_rows(doc) ==
    IF ~doc.opens \/ \E i \in 1..Len(doc.pages) : doc.pages[i].raises
    THEN [raised |-> TRUE, rows |-> <<>>]
    ELSE [raised |-> FALSE, rows |-> PageRows(doc.pages)]

\* variant: fillna("") is left out, short rows keep their missing cells
frame_of_rows_unfilled(all_rows) ==
    LET max_cols == MaxLen(all_rows)
    IN  [columns |-> [i \in 1..max_cols |-> <<"Col", i>>],
         rows    |-> [r \in 1..Len(all_rows) |->
                         all_rows[r] \o [i \in 1..(max_cols - Len(all_rows[r])) |-> str(<<"n", "a", "n">>)]]]

frame_of_rows(all_rows) ==
    LET max_cols == MaxLen(all_rows)
    IN  [columns |-> [i \in 1..max_cols |-> <<"Col", i>>],
         rows    |-> [r \in 1..Len(all_rows) |-> PadRow(all_rows[r], max_cols)]]

extract_raw_data(doc) ==
    LET got == collect_rows(doc)
    IN  IF got.raised THEN EmptyFrame
        ELSE IF got.rows = <<>> THEN EmptyFrame
        ELSE frame_of_rows(got.rows)

----------------------------------------------------------------------------
(* extract_incoming_pipes, extract_outgoing_pipes *)

IncomingMinRows == 70
IncomingMinCols == 11
IncomingFirstRow == 63
OutgoingMinRows == 85
OutgoingMinCols == 12
OutgoingFirstRow == 83

\* lines 41-43: the columns of the table returned for a grid that is too small
IncomingColumns ==
    <<"ID", "UPSTREAM REFERENCE", "PIPE SHAPE", "PIPE SIZE (mm)",
      "BACKDROP DIAM (mm)", "PIPE MATERIAL", "LINING",
      "DEPTH FROM COVER (m)", "INVERT LEVEL (m AD)">>

\* lines 71-73
OutgoingColumns ==
    <<"ID", "UPSTREAM REFERENCE", "PIPE SHAPE", "PIPE SIZE (mm)",
      "COND", "CRITY", "PIPE MATERIAL", "LINING",
      "DEPTH FROM COVER (m)", "INVERT LEVEL (m AD)">>

\* The column assignments of the normal path, in the order the code makes
\* them: the new column's name and the 0-based block column it copies;
\* PipeSizeSrc marks the column computed from block columns 3, 4 and 5.
PipeSizeSrc == -1

\* variant: the normal path assigns LINING before PIPE MATERIAL
IncomingAssignSwapped ==
    <<[name |-> "ID", src |-> 0],
      [name |-> "UPSTREAM REFERENCE", src |-> 1],
      [name |-> "PIPE SHAPE", src |-> 2],
      [name |-> "PIPE SIZE (mm)", src |-> PipeSizeSrc],
      [name |-> "BACKDROP DIAM (mm)", src |-> 6],
      [name |-> "LINING", src |-> 8],
      [name |-> "PIPE MATERIAL", src |-> 7],
      [name |-> "DEPTH FROM COVER (m)", src |-> 9],
      [name |-> "INVERT LEVEL (m AD)", src |-> 10]>>

IncomingAssign ==
    <<[name |-> "ID", src |-> 0],
      [name |-> "UPSTREAM REFERENCE", src |-> 1],
      [name |-> "PIPE SHAPE", src |-> 2],
      [name |-> "PIPE SIZE (mm)", src |-> PipeSizeSrc],
      [name |-> "BACKDROP DIAM (mm)", src |-> 6],
      [name |-> "PIPE MATERIAL", src |-> 7],
      [name |-> "LINING", src |-> 8],
      [name |-> "DEPTH FROM COVER (m)", src |-> 9],
      [name |-> "INVERT LEVEL (m AD)", src |-> 10]>>

OutgoingAssign ==
    <<[name |-> "ID", src |-> 0],
      [name |-> "UPSTREAM REFERENCE", src |-> 1],
      [name |-> "PIPE SHAPE", src |-> 2],
      [name |-> "PIPE SIZE (mm)", src |-> PipeSizeSrc],
      [name |-> "COND", src |-> 6],
      [name |-> "CRITY", src |-> 7],
      [name |-> "PIPE MATERIAL", src |-> 8],
      [name |-> "LINING", src |-> 9],
      [name |-> "DEPTH FROM COVER (m)", src |-> 10],
      [name |-> "INVERT LEVEL (m AD)", src |-> 11]>>

\* a.str.strip() + " " + b.str.strip() + " " + c.str.strip(), then .str.strip()
pipe_size(a, b, c) == strip(strip(a) \o Space \o strip(b) \o Space \o strip(c))

\* df_raw.iloc[first:last, 0:ncols].reset_index(drop=True), rows 0-based,
\* last exclusive
Block(df, first, last, ncols) ==
    [r \in 1..(last - first) |-> SubSeq(df.rows[first + r], 1, ncols)]

\* a DataFrame filled column by column from the rows of a block
assigned_table(block, assign) ==
    [columns |-> [k \in 1..Len(assign) |-> assign[k].name],
     rows    |-> [r \in 1..Len(block) |->
                     [k \in 1..Len(assign) |->
                         IF assign[k].src = PipeSizeSrc
                         THEN pipe_size(block[r][4], block[r][5], block[r][6])
                         ELSE block[r][assign[k].src + 1]]]]

incoming_too_small(df) ==
    IsEmpty(df) \/ NRows(df) < IncomingMinRows \/ NCols(df) < IncomingMinCols

extract_incoming_pipes(df) ==
    IF incoming_too_small(df)
    THEN [columns |-> IncomingColumns, rows |-> <<>>]
    ELSE assigned_table(
             Block(df, IncomingFirstRow, IncomingMinRows, IncomingMinCols),
             IncomingAssign)

outgoing_too_small(df) ==
    IsEmpty(df) \/ NRows(df) < OutgoingMinRows \/ NCols(df) < OutgoingMinCols

\* variant: the undersized path returns one blank row instead of none
extract_outgoing_pipes_blank_row(df) ==
    IF outgoing_too_small(df)
    THEN [columns |-> OutgoingColumns,
          rows    |-> <<[k \in 1..Len(OutgoingColumns) |-> <<>>]>>]
    ELSE assigned_table(
             Block(df, OutgoingFirstRow, OutgoingMinRows, OutgoingMinCols),
             OutgoingAssign)

extract_outgoing_pipes(df) ==
    IF outgoing_too_small(df)
    THEN [columns |-> OutgoingColumns, rows |-> <<>>]
    ELSE assigned_table(
             Block(df, OutgoingFirstRow, OutgoingMinRows, OutgoingMinCols),
             OutgoingAssign)

----------------------------------------------------------------------------
(* extract_location_data *)

\* get_val: str(df.iloc[row, col]).strip() when the cell exists, else ""
get_val(df, row, col) ==
    IF NRows(df) > row /\ NCols(df) > col THEN strip(Cell(df, row, col)) ELSE <<>>

\* df.iloc[row, start_col:end_col] with Python's slice clipping; end_col = -1
\* stands for "no end_col given"
RowSlice(df, row, start_col, end_col) ==
    LET stop == IF end_col = -1 \/ end_col > NCols(df) THEN NCols(df) ELSE end_col
    IN  SubSeq(df.rows[row + 1], start_col + 1, stop)

RECURSIVE StripAll(_)
StripAll(cells) ==
    IF cells = <<>> THEN <<>> ELSE <<strip(cells[1])>> \o StripAll(Tail(cells))

\* join_row_range: the stripped non-blank cells of the slice, joined by " "
join_row_range(df, row, start_col, end_col) ==
    IF NRows(df) <= row THEN <<>>
    ELSE join(Space, NonEmptyOnly(StripAll(RowSlice(df, row, start_col, end_col))))

\* variant: y_ref is taken from the last part, parts[-1]
coordinates_last_part(coord_text) ==
    IF Comma \in Range(coord_text)
    THEN LET parts == split_on(coord_text, Comma)
         IN  IF Len(parts) >= 2 THEN <<strip(parts[1]), strip(parts[Len(parts)])>>
             ELSE <<<<>>, <<>>>>
    ELSE <<<<>>, <<>>>>

\* lines 114-119: <<x_ref, y_ref>>
coordinates(coord_text) ==
    IF Comma \in Range(coord_text)
    THEN LET parts == split_on(coord_text, Comma)
         IN  IF Len(parts) >= 2 THEN <<strip(parts[1]), strip(parts[2])>>
             ELSE <<<<>>, <<>>>>
    ELSE <<<<>>, <<>>>>

LocationColumns == <<"COMPONENTS", "VALUE">>

LocationComponents ==
    <<"Node Reference", "Coordinates X", "Coordinates Y", "Location",
      "Drainage Area Code", "Survey Date",
      "Year Laid", "Status", "Function", "Node Type",
      "Cover Shape", "Hinged", "Lock", "Duty", "Cover Size",
      "Side Entry", "Reg Course", "Depth", "Shaft Size",
      "Soffit", "Steps", "Ladders", "Landings", "Chamber Size",
      "Depth of Flow (mm)", "Depth of Silt (mm)", "Surch Height (mm)",
      "Cover Level (m AD)", "Notes">>

\* lines 112-149 and 160-167
location_values(df) ==
    LET xy == coordinates(get_val(df, 9, 2))
        Notes == strip(get_val(df, 95, 0) \o Space \o join_row_range(df, 96, 0, -1))
    IN  <<get_val(df, 8, 2), xy[1], xy[2], join_row_range(df, 10, 1, -1),
          get_val(df, 12, 1), join_row_range(df, 13, 2, -1),
          get_val(df, 15, 2), get_val(df, 15, 4), get_val(df, 15, 6), get_val(df, 16, 1),
          get_val(df, 19, 2), get_val(df, 19, 4), get_val(df, 19, 6), get_val(df, 19, 8),
          join_row_range(df, 19, 9, -1),
          get_val(df, 26, 1), get_val(df, 27, 1), get_val(df, 28, 1),
          join_row_range(df, 28, 2, 5),
          get_val(df, 30, 2), get_val(df, 32, 0), get_val(df, 34, 1), get_val(df, 34, 3),
          join_row_range(df, 34, 4, 7),
          get_val(df, 38, 2), get_val(df, 39, 2), get_val(df, 44, 0), get_val(df, 47, 2),
          Notes>>

extract_location_data(df) ==
    [columns |-> LocationColumns,
     rows    |-> [i \in 1..Len(LocationComponents) |->
                     <<LocationComponents[i], location_values(df)[i]>>]]

----------------------------------------------------------------------------
(* process_pdf *)

\* lines 3-6: the names the module's import statements bind
ModuleGlobals == {"os", "Path", "PdfReader", "pd"}

NodeReferenceLabel ==
    str(<<"N", "O", "D", "E", " ", "R", "E", "F", "E", "R", "E", "N", "C", "E">>)

UnknownNode ==
    str(<<"U", "N", "K", "N", "O", "W", "N", "_", "N", "O", "D", "E">>)

IsUpperAlnum(ch) == ch \in Range(Upper) \cup Range(Digits)

RECURSIVE RunEnd(_, _)
RunEnd(s, p) ==
    IF p > Len(s) THEN p
    ELSE IF IsUpperAlnum(s[p]) THEN RunEnd(s, p + 1) ELSE p

\* re.search(r"NODE REFERENCE\s*([A-Z0-9]+)", text): the leftmost match
re_search(text) ==
    LET n == Len(NodeReferenceLabel)
        GroupStart(i) == NextNonSpace(text, i + n)
        hits == {i \in 1..(Len(text) - n + 1) :
                    /\ SubSeq(text, i, i + n - 1) = NodeReferenceLabel
                    /\ GroupStart(i) <= Len(text)
                    /\ IsUpperAlnum(text[GroupStart(i)])}
    IN  IF hits = {} THEN [matched |-> FALSE, group |-> <<>>]
        ELSE LET i == CHOOSE h \in hits : \A k \in hits : h <= k
             IN  [matched |-> TRUE,
                  group   |-> SubSeq(text, GroupStart(i), RunEnd(text, GroupStart(i)) - 1)]

\* an exception, as the classes of its type from its own class up
NoError == <<>>
NameError == <<"NameError", "Exception", "BaseException">>
ValueError == <<"ValueError", "Exception", "BaseException">>

\* lines 186-194: the node reference, or the exception the lookup raises.
\* The fallback evaluates the name re, which no import binds.
node_reference(doc, df) ==
    LET direct == IF NRows(df) > 8 /\ NCols(df) > 2 THEN Cell(df, 8, 2) ELSE <<>>
    IN  IF direct # <<>> THEN [raised |-> NoError, value |-> direct]
        ELSE LET text_content == doc.pages[1].text
             IN  IF "re" \notin ModuleGlobals
                 THEN [raised |-> NameError, value |-> <<>>]
                 ELSE IF re_search(text_content).matched
                      THEN [raised |-> NoError, value |-> re_search(text_content).group]
                      ELSE [raised |-> NoError, value |-> UnknownNode]

SheetNames == <<"Raw Data", "Location Details", "Incoming Pipes", "Outgoing Pipes">>

\* line 227: max(series.map(len).max(), len(str(col))) + 2 is NaN for a table
\* without rows: the maximum of an empty series is NaN, and max(NaN, n) is NaN
has_nan_width(table) == NCols(table) > 0 /\ NRows(table) = 0

\* lines 171-233.  A workbook is kept as its node reference, its sheets and
\* the number of body rows of each sheet.  nan_ok: whether the installed
\* xlsxwriter takes a NaN column width (it decides nothing else); when it does
\* not, set_column raises inside the with block, the sheets added so far are
\* in the book and ExcelWriter.__exit__ saves it.  saved: whether a workbook
\* file was written to output_excel.
process_pdf(doc, nan_ok) ==
    LET df == extract_raw_data(doc)
        pipe_data_in_final == extract_incoming_pipes(df)
        pipe_data_out_final == extract_outgoing_pipes(df)
        df_location == extract_location_data(df)
        node == node_reference(doc, df)
        sheets_with_node == <<df_location, pipe_data_in_final, pipe_data_out_final>>
        body == <<NRows(df), NRows(df_location), NRows(pipe_data_in_final),
                  NRows(pipe_data_out_final)>>
        nan == {k \in 1..Len(sheets_with_node) : has_nan_width(sheets_with_node[k])}
        first_nan == CHOOSE k \in nan : \A j \in nan : k <= j
        Book(nsheets) == [node |-> node.value,
                          sheets |-> SubSeq(SheetNames, 1, nsheets),
                          body |-> SubSeq(body, 1, nsheets)]
        NoBook == [node |-> <<>>, sheets |-> <<>>, body |-> <<>>]
    IN  IF IsEmpty(df)
        THEN [outcome |-> "skipped", error |-> NoError, extracted |-> FALSE,
              saved |-> FALSE, book |-> NoBook]
        ELSE IF node.raised # NoError
        THEN [outcome |-> "raised", error |-> node.raised, extracted |-> TRUE,
              saved |-> FALSE, book |-> NoBook]
        ELSE IF ~nan_ok /\ nan # {}
        THEN [outcome |-> "raised", error |-> ValueError, extracted |-> TRUE,
              saved |-> TRUE, book |-> Book(1 + first_nan)]
        ELSE [outcome |-> "written", error |-> NoError, extracted |-> TRUE,
              saved |-> TRUE, book |-> Book(Len(SheetNames))]

----------------------------------------------------------------------------
(* run_processing_batch *)

\* str.lower() of one character other than U+0130 and U+03A3, as runs
\* <<first, last, step, delta>>: the characters first, first+step, .., last
\* lower to themselves plus delta; every other character lowers to itself.
\* The runs are disjoint and in increasing order.
LowerRuns == <<
    <<65, 90, 1, 32>>, <<192, 214, 1, 32>>, <<216, 222, 1, 32>>,
    <<256, 302, 2, 1>>, <<306, 310, 2, 1>>, <<313, 327, 2, 1>>,
    <<330, 374, 2, 1>>, <<376, 376, 1, -121>>, <<377, 381, 2, 1>>,
    <<385, 385, 1, 210>>, <<386, 388, 2, 1>>, <<390, 390, 1, 206>>,
    <<391, 391, 1, 1>>, <<393, 394, 1, 205>>, <<395, 395, 1, 1>>,
    <<398, 398, 1, 79>>, <<399, 399, 1, 202>>, <<400, 400, 1, 203>>,
    <<401, 401, 1, 1>>, <<403, 403, 1, 205>>, <<404, 404, 1, 207>>,
    <<406, 406, 1, 211>>, <<407, 407, 1, 209>>, <<408, 408, 1, 1>>,
    <<412, 412, 1, 211>>, <<413, 413, 1, 213>>, <<415, 415, 1, 214>>,
    <<416, 420, 2, 1>>, <<422, 422, 1, 218>>, <<423, 423, 1, 1>>,
    <<425, 425, 1, 218>>, <<428, 428, 1, 1>>, <<430, 430, 1, 218>>,
    <<431, 431, 1, 1>>, <<433, 434, 1, 217>>, <<435, 437, 2, 1>>,
    <<439, 439, 1, 219>>, <<440, 440, 1, 1>>, <<444, 444, 1, 1>>,
    <<452, 452, 1, 2>>, <<453, 453, 1, 1>>, <<455, 455, 1, 2>>,
    <<456, 456, 1, 1>>, <<458, 458, 1, 2>>, <<459, 475, 2, 1>>,
    <<478, 494, 2, 1>>, <<497, 497, 1, 2>>, <<498, 500, 2, 1>>,
    <<502, 502, 1, -97>>, <<503, 503, 1, -56>>, <<504, 542, 2, 1>>,
    <<544, 544, 1, -130>>, <<546, 562, 2, 1>>, <<570, 570, 1, 10795>>,
    <<571, 571, 1, 1>>, <<573, 573, 1, -163>>, <<574, 574, 1, 10792>>,
    <<577, 577, 1, 1>>, <<579, 579, 1, -195>>, <<580, 580, 1, 69>>,
    <<581, 581, 1, 71>>, <<582, 590, 2, 1>>, <<880, 882, 2, 1>>,
    <<886, 886, 1, 1>>, <<895, 895, 1, 116>>, <<902, 902, 1, 38>>,
    <<904, 906, 1, 37>>, <<908, 908, 1, 64>>, <<910, 911, 1, 63>>,
    <<913, 929, 1, 32>>, <<932, 939, 1, 32>>, <<975, 975, 1, 8>>,
    <<984, 1006, 2, 1>>, <<1012, 1012, 1, -60>>, <<1015, 1015, 1, 1>>,
    <<1017, 1017, 1, -7>>, <<1018, 1018, 1, 1>>, <<1021, 1023, 1, -130>>,
    <<1024, 1039, 1, 80>>, <<1040, 1071, 1, 32>>, <<1120, 1152, 2, 1>>,
    <<1162, 1214, 2, 1>>, <<1216, 1216, 1, 15>>, <<1217, 1229, 2, 1>>,
    <<1232, 1326, 2, 1>>, <<1329, 1366, 1, 48>>, <<4256, 4293, 1, 7264>>,
    <<4295, 4295, 1, 7264>>, <<4301, 4301, 1, 7264>>,
    <<5024, 5103, 1, 38864>>, <<5104, 5109, 1, 8>>, <<7312, 7354, 1, -3008>>,
    <<7357, 7359, 1, -3008>>, <<7680, 7828, 2, 1>>, <<7838, 7838, 1, -7615>>,
    <<7840, 7934, 2, 1>>, <<7944, 7951, 1, -8>>, <<7960, 7965, 1, -8>>,
    <<7976, 7983, 1, -8>>, <<7992, 7999, 1, -8>>, <<8008, 8013, 1, -8>>,
    <<8025, 8031, 2, -8>>, <<8040, 8047, 1, -8>>, <<8072, 8079, 1, -8>>,
    <<8088, 8095, 1, -8>>, <<8104, 8111, 1, -8>>, <<8120, 8121, 1, -8>>,
    <<8122, 8123, 1, -74>>, <<8124, 8124, 1, -9>>, <<8136, 8139, 1, -86>>,
    <<8140, 8140, 1, -9>>, <<8152, 8153, 1, -8>>, <<8154, 8155, 1, -100>>,
    <<8168, 8169, 1, -8>>, <<8170, 8171, 1, -112>>, <<8172, 8172, 1, -7>>,
    <<8184, 8185, 1, -128>>, <<8186, 8187, 1, -126>>, <<8188, 8188, 1, -9>>,
    <<8486, 8486, 1, -7517>>, <<8490, 8490, 1, -8383>>,
    <<8491, 8491, 1, -8262>>, <<8498, 8498, 1, 28>>, <<8544, 8559, 1, 16>>,
    <<8579, 8579, 1, 1>>, <<9398, 9423, 1, 26>>, <<11264, 11311, 1, 48>>,
    <<11360, 11360, 1, 1>>, <<11362, 11362, 1, -10743>>,
    <<11363, 11363, 1, -3814>>, <<11364, 11364, 1, -10727>>,
    <<11367, 11371, 2, 1>>, <<11373, 11373, 1, -10780>>,
    <<11374, 11374, 1, -10749>>, <<11375, 11375, 1, -10783>>,
    <<11376, 11376, 1, -10782>>, <<11378, 11378, 1, 1>>,
    <<11381, 11381, 1, 1>>, <<11390, 11391, 1, -10815>>,
    <<11392, 11490, 2, 1>>, <<11499, 11501, 2, 1>>, <<11506, 11506, 1, 1>>,
    <<42560, 42604, 2, 1>>, <<42624, 42650, 2, 1>>, <<42786, 42798, 2, 1>>,
    <<42802, 42862, 2, 1>>, <<42873, 42875, 2, 1>>,
    <<42877, 42877, 1, -35332>>, <<42878, 42886, 2, 1>>,
    <<42891, 42891, 1, 1>>, <<42893, 42893, 1, -42280>>,
    <<42896, 42898, 2, 1>>, <<42902, 42920, 2, 1>>,
    <<42922, 42922, 1, -42308>>, <<42923, 42923, 1, -42319>>,
    <<42924, 42924, 1, -42315>>, <<42925, 42925, 1, -42305>>,
    <<42926, 42926, 1, -42308>>, <<42928, 42928, 1, -42258>>,
    <<42929, 42929, 1, -42282>>, <<42930, 42930, 1, -42261>>,
    <<42931, 42931, 1, 928>>, <<42932, 42946, 2, 1>>,
    <<42948, 42948, 1, -48>>, <<42949, 42949, 1, -42307>>,
    <<42950, 42950, 1, -35384>>, <<42951, 42953, 2, 1>>,
    <<42960, 42960, 1, 1>>, <<42966, 42968, 2, 1>>, <<42997, 42997, 1, 1>>,
    <<65313, 65338, 1, 32>>, <<66560, 66599, 1, 40>>,
    <<66736, 66771, 1, 40>>, <<66928, 66938, 1, 39>>,
    <<66940, 66954, 1, 39>>, <<66956, 66962, 1, 39>>,
    <<66964, 66965, 1, 39>>, <<68736, 68786, 1, 64>>,
    <<71840, 71871, 1, 32>>, <<93760, 93791, 1, 32>>,
    <<125184, 125217, 1, 34>>>>

\* the cased characters that are not case-ignorable, as ranges <<first, last>>
CasedRanges == {
    <<65, 90>>, <<97, 122>>, <<170, 170>>, <<181, 181>>, <<186, 186>>,
    <<192, 214>>, <<216, 246>>, <<248, 442>>, <<444, 447>>, <<452, 659>>,
    <<661, 687>>, <<880, 883>>, <<886, 887>>, <<891, 893>>, <<895, 895>>,
    <<902, 902>>, <<904, 906>>, <<908, 908>>, <<910, 929>>, <<931, 1013>>,
    <<1015, 1153>>, <<1162, 1327>>, <<1329, 1366>>, <<1376, 1416>>,
    <<4256, 4293>>, <<4295, 4295>>, <<4301, 4301>>, <<4304, 4346>>,
    <<4349, 4351>>, <<5024, 5109>>, <<5112, 5117>>, <<7296, 7304>>,
    <<7312, 7354>>, <<7357, 7359>>, <<7424, 7467>>, <<7531, 7543>>,
    <<7545, 7578>>, <<7680, 7957>>, <<7960, 7965>>, <<7968, 8005>>,
    <<8008, 8013>>, <<8016, 8023>>, <<8025, 8025>>, <<8027, 8027>>,
    <<8029, 8029>>, <<8031, 8061>>, <<8064, 8116>>, <<8118, 8124>>,
    <<8126, 8126>>, <<8130, 8132>>, <<8134, 8140>>, <<8144, 8147>>,
    <<8150, 8155>>, <<8160, 8172>>, <<8178, 8180>>, <<8182, 8188>>,
    <<8450, 8450>>, <<8455, 8455>>, <<8458, 8467>>, <<8469, 8469>>,
    <<8473, 8477>>, <<8484, 8484>>, <<8486, 8486>>, <<8488, 8488>>,
    <<8490, 8493>>, <<8495, 8500>>, <<8505, 8505>>, <<8508, 8511>>,
    <<8517, 8521>>, <<8526, 8526>>, <<8544, 8575>>, <<8579, 8580>>,
    <<9398, 9449>>, <<11264, 11387>>, <<11390, 11492>>, <<11499, 11502>>,
    <<11506, 11507>>, <<11520, 11557>>, <<11559, 11559>>, <<11565, 11565>>,
    <<42560, 42605>>, <<42624, 42651>>, <<42786, 42863>>, <<42865, 42887>>,
    <<42891, 42894>>, <<42896, 42954>>, <<42960, 42961>>, <<42963, 42963>>,
    <<42965, 42969>>, <<42997, 42998>>, <<43002, 43002>>, <<43824, 43866>>,
    <<43872, 43880>>, <<43888, 43967>>, <<64256, 64262>>, <<64275, 64279>>,
    <<65313, 65338>>, <<65345, 65370>>, <<66560, 66639>>, <<66736, 66771>>,
    <<66776, 66811>>, <<66928, 66938>>, <<66940, 66954>>, <<66956, 66962>>,
    <<66964, 66965>>, <<66967, 66977>>, <<66979, 66993>>, <<66995, 67001>>,
    <<67003, 67004>>, <<68736, 68786>>, <<68800, 68850>>, <<71840, 71903>>,
    <<93760, 93823>>, <<119808, 119892>>, <<119894, 119964>>,
    <<119966, 119967>>, <<119970, 119970>>, <<119973, 119974>>,
    <<119977, 119980>>, <<119982, 119993>>, <<119995, 119995>>,
    <<119997, 120003>>, <<120005, 120069>>, <<120071, 120074>>,
    <<120077, 120084>>, <<120086, 120092>>, <<120094, 120121>>,
    <<120123, 120126>>, <<120128, 120132>>, <<120134, 120134>>,
    <<120138, 120144>>, <<120146, 120485>>, <<120488, 120512>>,
    <<120514, 120538>>, <<120540, 120570>>, <<120572, 120596>>,
    <<120598, 120628>>, <<120630, 120654>>, <<120656, 120686>>,
    <<120688, 120712>>, <<120714, 120744>>, <<120746, 120770>>,
    <<120772, 120779>>, <<122624, 122633>>, <<122635, 122654>>,
    <<125184, 125251>>, <<127280, 127305>>, <<127312, 127337>>,
    <<127344, 127369>>}

\* the case-ignorable characters, as ranges <<first, last>>
CaseIgnorableRanges == {
    <<39, 39>>, <<46, 46>>, <<58, 58>>, <<94, 94>>, <<96, 96>>, <<168, 168>>,
    <<173, 173>>, <<175, 175>>, <<180, 180>>, <<183, 184>>, <<688, 879>>,
    <<884, 885>>, <<890, 890>>, <<900, 901>>, <<903, 903>>, <<1155, 1161>>,
    <<1369, 1369>>, <<1375, 1375>>, <<1425, 1469>>, <<1471, 1471>>,
    <<1473, 1474>>, <<1476, 1477>>, <<1479, 1479>>, <<1524, 1524>>,
    <<1536, 1541>>, <<1552, 1562>>, <<1564, 1564>>, <<1600, 1600>>,
    <<1611, 1631>>, <<1648, 1648>>, <<1750, 1757>>, <<1759, 1768>>,
    <<1770, 1773>>, <<1807, 1807>>, <<1809, 1809>>, <<1840, 1866>>,
    <<1958, 1968>>, <<2027, 2037>>, <<2042, 2042>>, <<2045, 2045>>,
    <<2070, 2093>>, <<2137, 2139>>, <<2184, 2184>>, <<2192, 2193>>,
    <<2200, 2207>>, <<2249, 2306>>, <<2362, 2362>>, <<2364, 2364>>,
    <<2369, 2376>>, <<2381, 2381>>, <<2385, 2391>>, <<2402, 2403>>,
    <<2417, 2417>>, <<2433, 2433>>, <<2492, 2492>>, <<2497, 2500>>,
    <<2509, 2509>>, <<2530, 2531>>, <<2558, 2558>>, <<2561, 2562>>,
    <<2620, 2620>>, <<2625, 2626>>, <<2631, 2632>>, <<2635, 2637>>,
    <<2641, 2641>>, <<2672, 2673>>, <<2677, 2677>>, <<2689, 2690>>,
    <<2748, 2748>>, <<2753, 2757>>, <<2759, 2760>>, <<2765, 2765>>,
    <<2786, 2787>>, <<2810, 2815>>, <<2817, 2817>>, <<2876, 2876>>,
    <<2879, 2879>>, <<2881, 2884>>, <<2893, 2893>>, <<2901, 2902>>,
    <<2914, 2915>>, <<2946, 2946>>, <<3008, 3008>>, <<3021, 3021>>,
    <<3072, 3072>>, <<3076, 3076>>, <<3132, 3132>>, <<3134, 3136>>,
    <<3142, 3144>>, <<3146, 3149>>, <<3157, 3158>>, <<3170, 3171>>,
    <<3201, 3201>>, <<3260, 3260>>, <<3263, 3263>>, <<3270, 3270>>,
    <<3276, 3277>>, <<3298, 3299>>, <<3328, 3329>>, <<3387, 3388>>,
    <<3393, 3396>>, <<3405, 3405>>, <<3426, 3427>>, <<3457, 3457>>,
    <<3530, 3530>>, <<3538, 3540>>, <<3542, 3542>>, <<3633, 3633>>,
    <<3636, 3642>>, <<3654, 3662>>, <<3761, 3761>>, <<3764, 3772>>,
    <<3782, 3782>>, <<3784, 3789>>, <<3864, 3865>>, <<3893, 3893>>,
    <<3895, 3895>>, <<3897, 3897>>, <<3953, 3966>>, <<3968, 3972>>,
    <<3974, 3975>>, <<3981, 3991>>, <<3993, 4028>>, <<4038, 4038>>,
    <<4141, 4144>>, <<4146, 4151>>, <<4153, 4154>>, <<4157, 4158>>,
    <<4184, 4185>>, <<4190, 4192>>, <<4209, 4212>>, <<4226, 4226>>,
    <<4229, 4230>>, <<4237, 4237>>, <<4253, 4253>>, <<4348, 4348>>,
    <<4957, 4959>>, <<5906, 5908>>, <<5938, 5939>>, <<5970, 5971>>,
    <<6002, 6003>>, <<6068, 6069>>, <<6071, 6077>>, <<6086, 6086>>,
    <<6089, 6099>>, <<6103, 6103>>, <<6109, 6109>>, <<6155, 6159>>,
    <<6211, 6211>>, <<6277, 6278>>, <<6313, 6313>>, <<6432, 6434>>,
    <<6439, 6440>>, <<6450, 6450>>, <<6457, 6459>>, <<6679, 6680>>,
    <<6683, 6683>>, <<6742, 6742>>, <<6744, 6750>>, <<6752, 6752>>,
    <<6754, 6754>>, <<6757, 6764>>, <<6771, 6780>>, <<6783, 6783>>,
    <<6823, 6823>>, <<6832, 6862>>, <<6912, 6915>>, <<6964, 6964>>,
    <<6966, 6970>>, <<6972, 6972>>, <<6978, 6978>>, <<7019, 7027>>,
    <<7040, 7041>>, <<7074, 7077>>, <<7080, 7081>>, <<7083, 7085>>,
    <<7142, 7142>>, <<7144, 7145>>, <<7149, 7149>>, <<7151, 7153>>,
    <<7212, 7219>>, <<7222, 7223>>, <<7288, 7293>>, <<7376, 7378>>,
    <<7380, 7392>>, <<7394, 7400>>, <<7405, 7405>>, <<7412, 7412>>,
    <<7416, 7417>>, <<7468, 7530>>, <<7544, 7544>>, <<7579, 7679>>,
    <<8125, 8125>>, <<8127, 8129>>, <<8141, 8143>>, <<8157, 8159>>,
    <<8173, 8175>>, <<8189, 8190>>, <<8203, 8207>>, <<8216, 8217>>,
    <<8228, 8228>>, <<8231, 8231>>, <<8234, 8238>>, <<8288, 8292>>,
    <<8294, 8303>>, <<8305, 8305>>, <<8319, 8319>>, <<8336, 8348>>,
    <<8400, 8432>>, <<11388, 11389>>, <<11503, 11505>>, <<11631, 11631>>,
    <<11647, 11647>>, <<11744, 11775>>, <<11823, 11823>>, <<12293, 12293>>,
    <<12330, 12333>>, <<12337, 12341>>, <<12347, 12347>>, <<12441, 12446>>,
    <<12540, 12542>>, <<40981, 40981>>, <<42232, 42237>>, <<42508, 42508>>,
    <<42607, 42610>>, <<42612, 42621>>, <<42623, 42623>>, <<42652, 42655>>,
    <<42736, 42737>>, <<42752, 42785>>, <<42864, 42864>>, <<42888, 42890>>,
    <<42994, 42996>>, <<43000, 43001>>, <<43010, 43010>>, <<43014, 43014>>,
    <<43019, 43019>>, <<43045, 43046>>, <<43052, 43052>>, <<43204, 43205>>,
    <<43232, 43249>>, <<43263, 43263>>, <<43302, 43309>>, <<43335, 43345>>,
    <<43392, 43394>>, <<43443, 43443>>, <<43446, 43449>>, <<43452, 43453>>,
    <<43471, 43471>>, <<43493, 43494>>, <<43561, 43566>>, <<43569, 43570>>,
    <<43573, 43574>>, <<43587, 43587>>, <<43596, 43596>>, <<43632, 43632>>,
    <<43644, 43644>>, <<43696, 43696>>, <<43698, 43700>>, <<43703, 43704>>,
    <<43710, 43711>>, <<43713, 43713>>, <<43741, 43741>>, <<43756, 43757>>,
    <<43763, 43764>>, <<43766, 43766>>, <<43867, 43871>>, <<43881, 43883>>,
    <<44005, 44005>>, <<44008, 44008>>, <<44013, 44013>>, <<64286, 64286>>,
    <<64434, 64450>>, <<65024, 65039>>, <<65043, 65043>>, <<65056, 65071>>,
    <<65106, 65106>>, <<65109, 65109>>, <<65279, 65279>>, <<65287, 65287>>,
    <<65294, 65294>>, <<65306, 65306>>, <<65342, 65342>>, <<65344, 65344>>,
    <<65392, 65392>>, <<65438, 65439>>, <<65507, 65507>>, <<65529, 65531>>,
    <<66045, 66045>>, <<66272, 66272>>, <<66422, 66426>>, <<67456, 67461>>,
    <<67463, 67504>>, <<67506, 67514>>, <<68097, 68099>>, <<68101, 68102>>,
    <<68108, 68111>>, <<68152, 68154>>, <<68159, 68159>>, <<68325, 68326>>,
    <<68900, 68903>>, <<69291, 69292>>, <<69446, 69456>>, <<69506, 69509>>,
    <<69633, 69633>>, <<69688, 69702>>, <<69744, 69744>>, <<69747, 69748>>,
    <<69759, 69761>>, <<69811, 69814>>, <<69817, 69818>>, <<69821, 69821>>,
    <<69826, 69826>>, <<69837, 69837>>, <<69888, 69890>>, <<69927, 69931>>,
    <<69933, 69940>>, <<70003, 70003>>, <<70016, 70017>>, <<70070, 70078>>,
    <<70089, 70092>>, <<70095, 70095>>, <<70191, 70193>>, <<70196, 70196>>,
    <<70198, 70199>>, <<70206, 70206>>, <<70367, 70367>>, <<70371, 70378>>,
    <<70400, 70401>>, <<70459, 70460>>, <<70464, 70464>>, <<70502, 70508>>,
    <<70512, 70516>>, <<70712, 70719>>, <<70722, 70724>>, <<70726, 70726>>,
    <<70750, 70750>>, <<70835, 70840>>, <<70842, 70842>>, <<70847, 70848>>,
    <<70850, 70851>>, <<71090, 71093>>, <<71100, 71101>>, <<71103, 71104>>,
    <<71132, 71133>>, <<71219, 71226>>, <<71229, 71229>>, <<71231, 71232>>,
    <<71339, 71339>>, <<71341, 71341>>, <<71344, 71349>>, <<71351, 71351>>,
    <<71453, 71455>>, <<71458, 71461>>, <<71463, 71467>>, <<71727, 71735>>,
    <<71737, 71738>>, <<71995, 71996>>, <<71998, 71998>>, <<72003, 72003>>,
    <<72148, 72151>>, <<72154, 72155>>, <<72160, 72160>>, <<72193, 72202>>,
    <<72243, 72248>>, <<72251, 72254>>, <<72263, 72263>>, <<72273, 72278>>,
    <<72281, 72283>>, <<72330, 72342>>, <<72344, 72345>>, <<72752, 72758>>,
    <<72760, 72765>>, <<72767, 72767>>, <<72850, 72871>>, <<72874, 72880>>,
    <<72882, 72883>>, <<72885, 72886>>, <<73009, 73014>>, <<73018, 73018>>,
    <<73020, 73021>>, <<73023, 73029>>, <<73031, 73031>>, <<73104, 73105>>,
    <<73109, 73109>>, <<73111, 73111>>, <<73459, 73460>>, <<78896, 78904>>,
    <<92912, 92916>>, <<92976, 92982>>, <<92992, 92995>>, <<94031, 94031>>,
    <<94095, 94111>>, <<94176, 94177>>, <<94179, 94180>>, <<110576, 110579>>,
    <<110581, 110587>>, <<110589, 110590>>, <<113821, 113822>>,
    <<113824, 113827>>, <<118528, 118573>>, <<118576, 118598>>,
    <<119143, 119145>>, <<119155, 119170>>, <<119173, 119179>>,
    <<119210, 119213>>, <<119362, 119364>>, <<121344, 121398>>,
    <<121403, 121452>>, <<121461, 121461>>, <<121476, 121476>>,
    <<121499, 121503>>, <<121505, 121519>>, <<122880, 122886>>,
    <<122888, 122904>>, <<122907, 122913>>, <<122915, 122916>>,
    <<122918, 122922>>, <<123184, 123197>>, <<123566, 123566>>,
    <<123628, 123631>>, <<125136, 125142>>, <<125252, 125259>>,
    <<127995, 127999>>, <<917505, 917505>>, <<917536, 917631>>,
    <<917760, 917999>>}

InRanges(ch, ranges) == \E r \in ranges : r[1] <= ch /\ ch <= r[2]

IsCased(ch) == InRanges(ch, CasedRanges)
IsCaseIgnorable(ch) == InRanges(ch, CaseIgnorableRanges)

\* the index of the last run among lo..hi that starts at or before ch, lo-1
\* when there is none
RECURSIVE RunIndex(_, _, _)
RunIndex(ch, lo, hi) ==
    IF lo > hi THEN lo - 1
    ELSE LET mid == (lo + hi) \div 2
         IN  IF LowerRuns[mid][1] <= ch THEN RunIndex(ch, mid + 1, hi)
             ELSE RunIndex(ch, lo, mid - 1)

\* str.lower() of a one-character string: U+0130 lowers to two characters,
\* U+03A3 standing alone to U+03C3
LowerChar(ch) ==
    LET k == RunIndex(ch, 1, Len(LowerRuns))
    IN  IF ch = 304 THEN <<105, 775>>
        ELSE IF ch = 931 THEN <<963>>
        ELSE IF k > 0 /\ ch <= LowerRuns[k][2] /\ (ch - LowerRuns[k][1]) % LowerRuns[k][3] = 0
        THEN <<ch + LowerRuns[k][4]>>
        ELSE <<ch>>

\* the U+03A3 at position i is a final sigma: the nearest character before it
\* that is not case-ignorable is cased, the nearest after it is not
final_sigma(s, i) ==
    LET before == {j \in 1..(i - 1) : ~IsCaseIgnorable(s[j])}
        after == {j \in (i + 1)..Len(s) : ~IsCaseIgnorable(s[j])}
    IN  /\ before # {}
        /\ IsCased(s[CHOOSE j \in before : \A k \in before : k <= j])
        /\ \/ after = {}
           \/ ~IsCased(s[CHOOSE j \in after : \A k \in after : j <= k])

\* the lower-cased characters of s from position i on
RECURSIVE LowerFrom(_, _)
LowerFrom(s, i) ==
    IF i > Len(s) THEN <<>>
    ELSE (IF s[i] = 931 /\ final_sigma(s, i) THEN <<962>> ELSE LowerChar(s[i]))
             \o LowerFrom(s, i + 1)

\* str.lower()
lower(s) == LowerFrom(s, 1)

endswith(s, suffix) ==
    Len(s) >= Len(suffix)
    /\ SubSeq(s, Len(s) - Len(suffix) + 1, Len(s)) = suffix

DotPdf == str(<<".", "p", "d", "f">>)
DotXlsx == str(<<".", "x", "l", "s", "x">>)

\* line 249: file.lower().endswith(".pdf")
is_pdf(file) == \E lowered \in {lower(file)} : endswith(lowered, DotPdf)

\* Path(file).stem: the name without its last suffix; a dot that starts or
\* ends the name opens no suffix
stem(file) ==
    LET dots == {i \in 1..Len(file) : file[i] = Dot}
        last == CHOOSE i \in dots : \A j \in dots : j <= i
    IN  IF dots = {} THEN file
        ELSE IF 1 < last /\ last < Len(file) THEN SubSeq(file, 1, last - 1)
        ELSE file

\* line 251
excel_filename(file) == stem(file) \o DotXlsx

startswith(s, prefix) ==
    Len(s) >= Len(prefix) /\ SubSeq(s, 1, Len(prefix)) = prefix

\* os.path.join(root, file) of posixpath: an absolute second part replaces
\* the first, a first part that is empty or ends with "/" gets no separator
path_join(root, file) ==
    IF startswith(file, Slash) THEN file
    ELSE IF root = <<>> \/ endswith(root, Slash) THEN root \o file
    ELSE root \o Slash \o file

\* variant: the handler is written "except ValueError"
caught_value_error_only(error) == "ValueError" \in Range(error)

\* line 256, except Exception: Exception is among the exception's classes
CaughtByHandler(error) == "Exception" \in Range(error)

\* variant: a skipped file is recorded as failed too
failures_after_with_skips(failed, result, pdf_path) ==
    IF result.outcome = "skipped" \/ (result.outcome = "raised" /\ CaughtByHandler(result.error))
    THEN Append(failed, pdf_path)
    ELSE failed

\* lines 254-258: the failure list after one file's pipeline has ended
failures_after(failed, result, pdf_path) ==
    IF result.outcome = "raised" /\ CaughtByHandler(result.error)
    THEN Append(failed, pdf_path)
    ELSE failed

\* an exception of the pipeline that the handler does not catch leaves
\* run_processing_batch
escapes(result) == result.outcome = "raised" /\ ~CaughtByHandler(result.error)

\* the output directory after one file's pipeline has ended: the workbook
\* the writer saved, whole or in part, replaces any file of its name
outdir_after(dir, result, name) ==
    IF result.saved
    THEN [n \in DOMAIN dir \cup {name} |-> IF n = name THEN result.book ELSE dir[n]]
    ELSE dir

----------------------------------------------------------------------------
(* The documents of the model: what pypdf yields for a PDF file *)

RECURSIVE DecStr(_)
DecStr(n) ==
    IF n < 10 THEN <<Digits[n + 1]>> ELSE DecStr(n \div 10) \o <<Digits[(n % 10) + 1]>>

\* the token at line r, position c (both from 1): a letter and the line number
Token(r, c) == <<Upper[((c - 1) % 26) + 1]>> \o DecStr(r)

RenderLine(r, ntok) == join(Space, [c \in 1..ntok |-> Token(r, c)])

\* lines first..last, line r holding lens[r] tokens, as one page's text
RenderPage(first, last, lens) ==
    join(LineFeed, [k \in 1..(last - first + 1) |-> RenderLine(first + k - 1, lens[first + k - 1])])

Page(text) == [raises |-> FALSE, text |-> text]

GoodDoc(pages) == [opens |-> TRUE, pages |-> pages]

DocIds == {"corrupt", "badpage", "notext", "blank", "noref", "short", "gap",
           "full"}

FullLens == [r \in 1..MaxRows |-> MaxCols]
GapLens == [r \in 1..MaxRows |-> IF r = 9 THEN 2 ELSE MaxCols]

DocLibrary ==
    [d \in DocIds |->
        CASE d = "corrupt" -> [opens |-> FALSE, pages |-> <<>>]
          [] d = "badpage" -> GoodDoc(<<Page(RenderPage(1, 3, [r \in 1..3 |-> 3])),
                                        [raises |-> TRUE, text |-> <<>>]>>)
          [] d = "notext"  -> GoodDoc(<<Page(<<>>)>>)
          [] d = "blank"   -> GoodDoc(<<Page(Space \o LineFeed \o Space)>>)
          [] d = "noref"   -> GoodDoc(<<Page(RenderPage(1, 3, [r \in 1..3 |-> 3]))>>)
          [] d = "short"   -> GoodDoc(<<Page(RenderPage(1, 9, [r \in 1..9 |-> 3]))>>)
          [] d = "gap"     -> GoodDoc(<<Page(RenderPage(1, 50, GapLens)),
                                        Page(RenderPage(51, MaxRows, GapLens))>>)
          [] d = "full"    -> GoodDoc(<<Page(RenderPage(1, 50, FullLens)),
                                        Page(RenderPage(51, MaxRows, FullLens))>>)]

\* the raw grid and the pipeline's result for every document of the library
RawGrids == [d \in DocIds |-> extract_raw_data(DocLibrary[d])]

Processed ==
    [d \in DocIds |-> [nan_ok \in BOOLEAN |-> process_pdf(DocLibrary[d], nan_ok)]]

\* The input folder run_processing_batch is given, and the sub-directory
\* the input folder may hold
InputFolders == {str(<<"i", "n", "/">>)}
SubDir == str(<<"s">>)

\* The files the input tree may hold; sub: the file lies in the
\* sub-directory
Slots ==
    <<[sub |-> FALSE, file |-> str(<<"a", ".", "p", "d", "f">>)],
      [sub |-> FALSE, file |-> str(<<"a", ".", "P", "D", "F">>)],
      [sub |-> FALSE, file |-> str(<<"n", ".", "t", "x", "t">>)],
      [sub |-> FALSE, file |-> str(<<"b", ".", "p", "d", "f">>)],
      [sub |-> TRUE,  file |-> str(<<"a", ".", "p", "d", "f">>)]>>

\* the root os.walk reports: the top as it was given, a sub-directory joined
\* to it
walk_root(input_folder, sub) ==
    IF sub THEN path_join(input_folder, SubDir) ELSE input_folder

\* The orders in which os.walk may yield a set of files: those of the input
\* folder before those of its sub-directory (the walk is top-down), the
\* files of one directory in any order (that of os.scandir)
WalkOrders(present) ==
    {f \in [1..Cardinality(present) -> present] :
        /\ \A i \in DOMAIN f : \A j \in DOMAIN f : i # j => f[i] # f[j]
        /\ \A i \in DOMAIN f : \A j \in DOMAIN f :
               i < j => ~(Slots[f[i]].sub /\ ~Slots[f[j]].sub)}

TreeOf(input_folder, order, docs) ==
    [k \in 1..Len(order) |->
        [root |-> walk_root(input_folder, Slots[order[k]].sub),
         file |-> Slots[order[k]].file,
         doc  |-> IF order[k] \in DOMAIN docs THEN docs[order[k]] ELSE "notext"]]

\* the PDFs among a set of slots
PdfSlots(present) == {i \in present : is_pdf(Slots[i].file)}

entry_path(e) == path_join(e.root, e.file)

----------------------------------------------------------------------------
(* Spec: run_processing_batch over an input tree *)

NoDoc == [opens |-> FALSE, pages |-> <<>>]
NoTabs == [incoming |-> EmptyFrame, outgoing |-> EmptyFrame, location |-> EmptyFrame]

\* every tree of at most MaxFiles entries under the input folder, walked
\* in any order, each PDF holding any document
Init ==
    /\ \E input_folder \in InputFolders : \E present \in SUBSET (1..Len(Slots)) :
           /\ Cardinality(present) <= MaxFiles
           /\ \E order \in WalkOrders(present) :
              \E docs \in [PdfSlots(present) -> DocIds] :
                  tree = TreeOf(input_folder, order, docs)
    /\ idx = 0
    /\ failed_pdfs = <<>>
    /\ outdir = <<>>
    /\ calls = [i \in 1..Len(tree) |-> 0]
    /\ wrote = {}
    /\ pc = "start"
    /\ pdf = NoDoc
    /\ df_raw = EmptyFrame
    /\ tabs = NoTabs

\* lines 244-245.  os.makedirs is under no try: when the output folder cannot
\* be made (a file of its name is there, a parent cannot be written), its
\* OSError leaves run_processing_batch before any file is looked at.
MakeDirs ==
    /\ pc = "start"
    /\ \E made \in BOOLEAN : pc' = IF made THEN "walk" ELSE "raised"
    /\ failed_pdfs' = <<>>
    /\ UNCHANGED <<tree, idx, outdir, calls, wrote, pdf, df_raw, tabs>>

\* lines 248-249: a file that is no PDF
SkipEntry ==
    /\ pc = "walk"
    /\ idx < Len(tree)
    /\ \E e \in {tree[idx + 1]} : ~is_pdf(e.file)
    /\ idx' = idx + 1
    /\ UNCHANGED <<tree, failed_pdfs, outdir, calls, wrote, pc, pdf, df_raw, tabs>>

\* lines 249-258: one PDF through process_pdf, under the try/except
ProcessEntry ==
    /\ pc = "walk"
    /\ idx < Len(tree)
    /\ \E e \in {tree[idx + 1]} : \E nan_ok \in BOOLEAN :
          \E result \in {Processed[e.doc][nan_ok]} :
              /\ is_pdf(e.file)
              /\ calls' = [calls EXCEPT ![idx + 1] = @ + 1]
              /\ outdir' = outdir_after(outdir, result, excel_filename(e.file))
              /\ wrote' = IF result.outcome = "written" THEN wrote \cup {idx + 1} ELSE wrote
              /\ failed_pdfs' = failures_after(failed_pdfs, result, entry_path(e))
              /\ pc' = IF escapes(result) THEN "crashed" ELSE pc
    /\ idx' = idx + 1
    /\ UNCHANGED <<tree, pdf, df_raw, tabs>>

\* line 259
Return ==
    /\ pc = "walk"
    /\ idx = Len(tree)
    /\ pc' = "done"
    /\ UNCHANGED <<tree, idx, failed_pdfs, outdir, calls, wrote, pdf, df_raw, tabs>>

Next == MakeDirs \/ SkipEntry \/ ProcessEntry \/ Return

Spec == Init /\ [][Next]_vars

----------------------------------------------------------------------------
(* SpecRaw: extract_raw_data on one document *)

\* a text in one of two renderings: tokens one space apart and lines ended
\* by "\n", or tokens set off by runs of blanks, tabs and no-break spaces
\* with blanks around the line and lines ended by "\r\n"
RenderLoose(r, ntok) ==
    Space \o join(Space \o Tab \o NoBreakSpace, [c \in 1..ntok |-> Token(r, c)])
          \o NoBreakSpace

RenderLines(style, first, last, lens) ==
    join(IF style = "loose" THEN CrLf ELSE LineFeed, [k \in 1..(last - first + 1) |->
                      IF style = "loose"
                      THEN RenderLoose(first + k - 1, lens[first + k - 1])
                      ELSE RenderLine(first + k - 1, lens[first + k - 1])])

\* lines 1..cut on page one, the rest on page two; fault: whether opening the
\* document ("open") or extracting page two ("page") raises
RawDoc(lens, cut, style, fault) ==
    [opens |-> fault # "open",
     pages |-> <<Page(RenderLines(style, 1, cut, lens)),
                 [raises |-> fault = "page",
                  text   |-> RenderLines(style, cut + 1, Len(lens), lens)]>>]

\* every document of at most MaxLines lines of at most MaxTokens tokens
InitRaw ==
    /\ \E n \in 0..MaxLines : \E lens \in [1..n -> 0..MaxTokens] :
       \E cut \in 0..n : \E style \in {"tight", "loose"} :
       \E fault \in {"none", "open", "page"} :
           pdf = RawDoc(lens, cut, style, fault)
    /\ pc = "raw"
    /\ df_raw = EmptyFrame
    /\ tabs = NoTabs
    /\ tree = <<>> /\ idx = 0 /\ failed_pdfs = <<>> /\ outdir = <<>>
    /\ calls = <<>> /\ wrote = {}

\* line 175
ExtractRaw ==
    /\ pc = "raw"
    /\ df_raw' = extract_raw_data(pdf)
    /\ pc' = "done"
    /\ UNCHANGED <<tree, idx, failed_pdfs, outdir, calls, wrote, pdf, tabs>>

NextRaw == ExtractRaw

SpecRaw == InitRaw /\ [][NextRaw]_vars

----------------------------------------------------------------------------
(* SpecShape, SpecPipe, SpecCoord: the field extractors on one raw grid *)

Strings(alphabet, n) == UNION {[1..k -> alphabet] : k \in 0..n}

Grid(nr, nc) ==
    [columns |-> [i \in 1..nc |-> <<"Col", i>>],
     rows    |-> [r \in 1..nr |-> [c \in 1..nc |-> Token(r, c)]]]

\* grid g with the cell at 0-based (row, col) replaced
WithCell(g, row, col, text) ==
    [g EXCEPT !.rows[row + 1][col + 1] = text]

\* a grid large enough for both pipe blocks, with the three pipe-size cells of
\* the first incoming and the first outgoing row drawn from PipeStrings
PipeStrings == Strings({ord("3"), ord(" ")}, MaxPipeLen)

PipeGrid(a, b, c) ==
    LET g0 == Grid(OutgoingMinRows, OutgoingMinCols)
        g1 == WithCell(WithCell(WithCell(g0, IncomingFirstRow, 3, a),
                                IncomingFirstRow, 4, b), IncomingFirstRow, 5, c)
    IN  WithCell(WithCell(WithCell(g1, OutgoingFirstRow, 3, a),
                          OutgoingFirstRow, 4, b), OutgoingFirstRow, 5, c)

\* a grid that reaches the coordinate cell, that cell drawn from CoordStrings
CoordStrings == Strings({ord("1"), ord(","), ord(" ")}, MaxCoordLen)

CoordGrid(text) == WithCell(Grid(10, 3), 9, 2, text)

IdleRest ==
    /\ pc = "incoming"
    /\ tabs = NoTabs
    /\ pdf = NoDoc
    /\ tree = <<>> /\ idx = 0 /\ failed_pdfs = <<>> /\ outdir = <<>>
    /\ calls = <<>> /\ wrote = {}

\* every shape from the empty grid up to MaxRows x MaxCols
InitShape ==
    /\ \E nr \in 0..MaxRows : \E nc \in 0..MaxCols : df_raw = Grid(nr, nc)
    /\ IdleRest

InitPipe ==
    /\ \E a \in PipeStrings : \E b \in PipeStrings : \E c \in PipeStrings :
           df_raw = PipeGrid(a, b, c)
    /\ IdleRest

InitCoord ==
    /\ \E t \in CoordStrings : df_raw = CoordGrid(t)
    /\ IdleRest

\* line 180
ExtractIncoming ==
    /\ pc = "incoming"
    /\ tabs' = [tabs EXCEPT !.incoming = extract_incoming_pipes(df_raw)]
    /\ pc' = "outgoing"
    /\ UNCHANGED <<tree, idx, failed_pdfs, outdir, calls, wrote, pdf, df_raw>>

\* line 181
ExtractOutgoing ==
    /\ pc = "outgoing"
    /\ tabs' = [tabs EXCEPT !.outgoing = extract_outgoing_pipes(df_raw)]
    /\ pc' = "location"
    /\ UNCHANGED <<tree, idx, failed_pdfs, outdir, calls, wrote, pdf, df_raw>>

\* line 182
ExtractLocation ==
    /\ pc = "location"
    /\ tabs' = [tabs EXCEPT !.location = extract_location_data(df_raw)]
    /\ pc' = "done"
    /\ UNCHANGED <<tree, idx, failed_pdfs, outdir, calls, wrote, pdf, df_raw>>

NextExtract == ExtractIncoming \/ ExtractOutgoing \/ ExtractLocation

SpecShape == InitShape /\ [][NextExtract]_vars
SpecPipe == InitPipe /\ [][NextExtract]_vars
SpecCoord == InitCoord /\ [][NextExtract]_vars

----------------------------------------------------------------------------
(* Claims about run_processing_batch and process_pdf, under Spec *)

Pdfs == {i \in 1..Len(tree) : is_pdf(tree[i].file)}

Failed == Range(failed_pdfs)

\* C1: every discovered PDF gets exactly one process_pdf call once the walk
\* has reached it (and no other entry gets any), whatever the outcomes of the
\* files before it; no exception of a file's pipeline leaves the batch, which,
\* once the walk has begun, can always take its next step until it has
\* returned the failure list.
C1_BatchCompletes ==
    /\ pc # "crashed"
    /\ \A i \in 1..Len(tree) :
           calls[i] = IF i <= idx /\ is_pdf(tree[i].file) THEN 1 ELSE 0
    /\ pc = "walk" => ENABLED Next
    /\ pc = "done" => idx = Len(tree)

\* a file's pipeline raised, and a later file was still processed to a workbook
C1_Witness ==
    /\ pc = "done"
    /\ \E i \in Pdfs : \E j \in Pdfs :
           i < j /\ entry_path(tree[i]) \in Failed /\ j \in wrote

\* the documents C2 speaks of: corrupted (cannot be opened, or text
\* extraction raises) and valid (every field at its place)
CorruptDocs == {"corrupt", "badpage"}
ValidDocs == {"full"}

\* C2: after a batch over valid PDFs and one corrupted PDF (all of different
\* stems), the output directory holds exactly the valid PDFs' workbooks and
\* the failure list is exactly the corrupted file's path.
C2_CorruptedFileReported ==
    LET bad == {i \in Pdfs : tree[i].doc \in CorruptDocs}
        good == {i \in Pdfs : tree[i].doc \in ValidDocs}
    IN  (/\ pc = "done"
         /\ Cardinality(bad) = 1
         /\ good # {}
         /\ Pdfs = bad \cup good
         /\ \A i \in Pdfs : \A j \in Pdfs :
                i # j => excel_filename(tree[i].file) # excel_filename(tree[j].file))
        => /\ DOMAIN outdir = {excel_filename(tree[i].file) : i \in good}
           /\ Len(failed_pdfs) = 1
           /\ \A i \in bad : failed_pdfs[1] = entry_path(tree[i])

\* the node reference cell at row 9, column 3 is missing or empty
NodeCellMissing(df) == NRows(df) < 9 \/ NCols(df) < 3 \/ df.rows[9][3] = <<>>

\* C3: a processed PDF whose grid is non-empty but lacks the node reference
\* cell has had its workbook written and is not in the failure list.
C3_MissingNodeReferenceNonFatal ==
    \A i \in Pdfs :
        (i <= idx /\ ~IsEmpty(RawGrids[tree[i].doc])
                  /\ NodeCellMissing(RawGrids[tree[i].doc]))
        => /\ i \in wrote
           /\ excel_filename(tree[i].file) \in DOMAIN outdir
           /\ entry_path(tree[i]) \notin Failed

\* C8: when the batch over valid PDFs has returned, the output directory
\* holds as many workbooks as there are PDFs whose pipeline wrote one: each
\* of them has its own <stem>.xlsx.
C8_OneWorkbookPerPdf ==
    (pc = "done" /\ \A i \in Pdfs : tree[i].doc \in ValidDocs)
    => /\ wrote = Pdfs
       /\ Cardinality(DOMAIN outdir) = Cardinality(wrote)

\* C10: the step that processes a PDF with an empty raw grid invokes
\* process_pdf once, runs no field extractor, leaves the output directory as
\* it was (no workbook created or overwritten) and leaves the failure list as
\* it was.
C10_EmptyGridSkipped ==
    [][(/\ pc = "walk"
        /\ idx < Len(tree)
        /\ idx' = idx + 1
        /\ is_pdf(tree[idx + 1].file)
        /\ IsEmpty(RawGrids[tree[idx + 1].doc]))
       => /\ outdir' = outdir
          /\ wrote' = wrote
          /\ failed_pdfs' = failed_pdfs
          /\ calls'[idx + 1] = 1
          /\ pc' = "walk"
          /\ \A b \in BOOLEAN : ~Processed[tree[idx + 1].doc][b].extracted]_vars

\* a PDF without text was processed after another PDF had written the
\* workbook of the same name: the workbook is still there, the path not failed
C10_Witness ==
    /\ \E i \in Pdfs : \E j \in Pdfs :
           /\ j < i /\ i <= idx
           /\ j \in wrote
           /\ excel_filename(tree[j].file) = excel_filename(tree[i].file)
           /\ tree[i].doc = "notext"
           /\ excel_filename(tree[i].file) \in DOMAIN outdir
           /\ entry_path(tree[i]) \notin Failed

----------------------------------------------------------------------------
(* Claims about the field extractors *)

\* C4: each extractor's table has the same ordered columns whatever the
\* grid: those of the undersized path, also on the normal path.
C4_FixedSchema ==
    /\ pc \in {"outgoing", "location", "done"}
           => tabs.incoming.columns = IncomingColumns
    /\ pc \in {"location", "done"}
           => tabs.outgoing.columns = OutgoingColumns
    /\ pc = "done"
           => tabs.location.columns = <<"COMPONENTS", "VALUE">>

\* all three extractors ran on a grid large enough for both pipe blocks
C4_Witness ==
    /\ pc = "done"
    /\ NRows(df_raw) >= 85 /\ NCols(df_raw) >= 12
    /\ Len(tabs.incoming.rows) = 7 /\ Len(tabs.outgoing.rows) = 2

AllValuesEmpty(table) == \A i \in 1..Len(table.rows) : table.rows[i][2] = <<>>

\* C5 as stated: every extractor returns zero rows, with its schema, for a
\* grid smaller than its offsets require (location: row 97, column 10).
C5_ZeroRowsWhenTooSmall ==
    pc = "done" =>
        /\ (NRows(df_raw) < 70 \/ NCols(df_raw) < 11)
               => tabs.incoming = [columns |-> IncomingColumns, rows |-> <<>>]
        /\ (NRows(df_raw) < 85 \/ NCols(df_raw) < 12)
               => tabs.outgoing = [columns |-> OutgoingColumns, rows |-> <<>>]
        /\ (NRows(df_raw) < 97 \/ NCols(df_raw) < 10)
               => /\ tabs.location.columns = <<"COMPONENTS", "VALUE">>
                  /\ tabs.location.rows = <<>>

\* C5 (amended): for a grid smaller than their block, the incoming and the
\* outgoing extractor return zero rows with their schema; the location
\* extractor returns, for every grid, its two columns and its 29 component
\* rows in their fixed order, every VALUE being "" when the grid is empty.
C5_TooSmallGrids ==
    pc = "done" =>
        /\ (NRows(df_raw) < 70 \/ NCols(df_raw) < 11)
               => /\ tabs.incoming.rows = <<>>
                  /\ tabs.incoming.columns =
                         [k \in 1..Len(IncomingAssign) |-> IncomingAssign[k].name]
        /\ (NRows(df_raw) < 85 \/ NCols(df_raw) < 12)
               => /\ tabs.outgoing.rows = <<>>
                  /\ tabs.outgoing.columns =
                         [k \in 1..Len(OutgoingAssign) |-> OutgoingAssign[k].name]
        /\ tabs.location.columns = <<"COMPONENTS", "VALUE">>
        /\ Len(tabs.location.rows) = 29
        /\ \A i \in 1..29 : tabs.location.rows[i][1] = LocationComponents[i]
        /\ (NRows(df_raw) = 0 \/ NCols(df_raw) = 0) => AllValuesEmpty(tabs.location)

\* the extractors ran on a grid one row short of the incoming block and one
\* column short of the outgoing block
C5_Witness ==
    /\ pc = "done"
    /\ NRows(df_raw) = 69 /\ NCols(df_raw) = 11
    /\ tabs.incoming.rows = <<>> /\ tabs.outgoing.rows = <<>>
    /\ ~AllValuesEmpty(tabs.location)

\* the non-empty trimmed components, one space apart
JoinedComponents(a, b, c) ==
    join(Space, NonEmptyOnly(<<strip(a), strip(b), strip(c)>>))

\* C6: "PIPE SIZE (mm)" of every incoming and outgoing row is the non-empty
\* trimmed cells of columns 4-6 joined by exactly one space.
C6_PipeSizeSingleSpaced ==
    pc = "done" =>
        /\ \A r \in 1..Len(tabs.incoming.rows) :
               tabs.incoming.rows[r][4] =
                   JoinedComponents(df_raw.rows[63 + r][4], df_raw.rows[63 + r][5],
                                    df_raw.rows[63 + r][6])
        /\ \A r \in 1..Len(tabs.outgoing.rows) :
               tabs.outgoing.rows[r][4] =
                   JoinedComponents(df_raw.rows[83 + r][4], df_raw.rows[83 + r][5],
                                    df_raw.rows[83 + r][6])

\* positions of the commas of a text; the first, and the first after it
Commas(t) == {i \in 1..Len(t) : t[i] = Comma}
FirstComma(t) == CHOOSE i \in Commas(t) : \A j \in Commas(t) : i <= j
SecondCommaOrEnd(t) ==
    LET later == {i \in Commas(t) : i > FirstComma(t)}
    IN  IF later = {} THEN Len(t) + 1
        ELSE CHOOSE i \in later : \A j \in later : i <= j

CoordCell == df_raw.rows[10][3]
CoordX == tabs.location.rows[2][2]
CoordY == tabs.location.rows[3][2]

\* C7 as stated: X is the trimmed text before the first comma and Y the
\* trimmed text after it, all of it; both are "" without a comma.
C7_SplitOnFirstComma ==
    pc = "done" =>
        IF Commas(CoordCell) = {} THEN CoordX = <<>> /\ CoordY = <<>>
        ELSE /\ CoordX = strip(SubSeq(CoordCell, 1, FirstComma(CoordCell) - 1))
             /\ CoordY = strip(SubSeq(CoordCell, FirstComma(CoordCell) + 1,
                                      Len(CoordCell)))

\* C7 (amended): Y is the trimmed text between the first comma and the
\* second comma, or the end of the cell when it holds one comma only.
C7_FirstTwoParts ==
    pc = "done" =>
        IF Commas(CoordCell) = {} THEN CoordX = <<>> /\ CoordY = <<>>
        ELSE /\ CoordX = strip(SubSeq(CoordCell, 1, FirstComma(CoordCell) - 1))
             /\ CoordY = strip(SubSeq(CoordCell, FirstComma(CoordCell) + 1,
                                      SecondCommaOrEnd(CoordCell) - 1))

\* the location extractor ran on a cell with two commas and text after each
C7_Witness ==
    /\ pc = "done"
    /\ CoordCell = str(<<"1", ",", "1", ",", "1">>)
    /\ CoordX = str(<<"1">>) /\ CoordY = str(<<"1">>)

----------------------------------------------------------------------------
(* Claim about extract_raw_data, under SpecRaw *)

\* the token rows the document's pages hold, read off the page texts
TokenRows == PageRows(pdf.pages)

\* C9: when the collected token rows are non-empty, the raw grid has one row
\* per token row, in order, each as long as the longest token row, starting
\* with that row's tokens and completed with "".
C9_Rectangular ==
    (pc = "done" /\ pdf.opens /\ (\A p \in 1..Len(pdf.pages) : ~pdf.pages[p].raises)
                 /\ TokenRows # <<>>)
    => LET rows == TokenRows
           width == NCols(df_raw)
       IN  /\ NRows(df_raw) = Len(rows)
           /\ \E i \in 1..Len(rows) : Len(rows[i]) = width
           /\ \A i \in 1..Len(rows) :
                  /\ Len(rows[i]) <= width
                  /\ Len(df_raw.rows[i]) = width
                  /\ \A k \in 1..width :
                         df_raw.rows[i][k] =
                             IF k <= Len(rows[i]) THEN rows[i][k] ELSE <<>>

\* rows of 2, 5 and 3 tokens became three rows of 5 cells
C9_Witness ==
    /\ pc = "done"
    /\ [i \in 1..Len(TokenRows) |-> Len(TokenRows[i])] = <<2, 5, 3>>
    /\ NRows(df_raw) = 3
    /\ \A i \in 1..3 : Len(df_raw.rows[i]) = 5
    /\ df_raw.rows[1][3] = <<>> /\ df_raw.rows[3][5] = <<>>

=============================================================================
